---- MODULE Spec2Model ----
(***************************************************************************)
(* A model of folktables' ACS data source (ACSDataSource.__init__ and      *)
(* ACSDataSource.get_data) and of the row filters of the ACS task catalog  *)
(* (adult_filter, public_coverage_filter, travel_time_filter,              *)
(* employment_filter and the lambdas of the BasicProblem definitions).     *)
(*                                                                         *)
(* Tables are records [cols, rows]: cols is the ordered column list, rows  *)
(* the ordered list of rows, each row a function from column name to an    *)
(* integer cell.  Python assert statements are modelled as executed (the   *)
(* interpreter's default mode).                                            *)
(***************************************************************************)
EXTENDS Integers, Sequences, FiniteSets, TLC

VARIABLES
    pc,        \* "new" before an ACSDataSource exists, "ready" once constructed
    ds,        \* the instance: [exists, horizon, survey]
    ctorError, \* the exception of the last failed construction, "" if none
    remote,    \* the shard files the Census server holds: [survey][state] -> table
    hashSeed,  \* the interpreter's string hash seed: fixes the iteration order of sets
    cache,     \* the shards present in the on-disk cache: set of <<survey, state>>
    call,      \* the recorded get_data call: its arguments, intermediate tables and result
    again,     \* the outcome of the last later call made with the arguments of call
    task,      \* the catalog task whose preprocess is applied
    df,        \* the table handed to the task: rows with an index label and cells
    once,      \* preprocess(df)
    twice,     \* preprocess(preprocess(df))
    y,         \* the labels of the rows of once: target_transform of the target column
    phase      \* "idle", "input", "once", "twice": how far the task has been applied

dsVars == <<pc, ds, ctorError, remote, hashSeed, cache, call, again>>
taskVars == <<task, df, once, twice, y, phase>>
vars == <<dsVars, taskVars>>

-----------------------------------------------------------------------------
(* Bounds and vocabularies *)

MaxSeed == 1

Horizons == {"1-Year", "5-Year", "3-Year"}
Surveys == {"person", "household", "housing"}

\* load_acs's list of known regions, used when states is None
state_list == <<"AL", "CA">>

NoneStates == <<>>
StatesArgs == {NoneStates, <<"CA">>}

\* density as the fraction num/den
Densities == {[num |-> 1, den |-> 1], [num |-> 1, den |-> 2]}
DefaultDensity == [num |-> 1, den |-> 1]
Seeds == 0..MaxSeed

-----------------------------------------------------------------------------
(* Sequence helpers *)

Range(s) == {s[i] : i \in DOMAIN s}

RECURSIVE Flatten(_)
Flatten(ss) == IF ss = <<>> THEN <<>> ELSE Head(ss) \o Flatten(Tail(ss))

RECURSIVE SetToSortedSeq(_, _)
\* the elements of S in the order they have in the sequence ref
SetToSortedSeq(S, ref) ==
    IF ref = <<>> THEN <<>>
    ELSE IF Head(ref) \in S THEN <<Head(ref)>> \o SetToSortedSeq(S, Tail(ref))
         ELSE SetToSortedSeq(S, Tail(ref))

Reverse(s) == [i \in 1..Len(s) |-> s[Len(s) + 1 - i]]

-----------------------------------------------------------------------------
(* Shard contents *)

PersonCols == <<"SERIALNO", "SPORDER", "ST", "AGEP">>
HouseholdCols == <<"SERIALNO", "ST", "NP", "TEN">>

PRow(serial, sporder, st, agep) ==
    [c \in Range(PersonCols) |->
        CASE c = "SERIALNO" -> serial [] c = "SPORDER" -> sporder
          [] c = "ST" -> st [] OTHER -> agep]

HRow(serial, st, np, ten) ==
    [c \in Range(HouseholdCols) |->
        CASE c = "SERIALNO" -> serial [] c = "ST" -> st
          [] c = "NP" -> np [] OTHER -> ten]

PersonAL == [cols |-> PersonCols,
             rows |-> <<PRow(1, 1, 1, 30), PRow(1, 2, 1, 12), PRow(2, 1, 1, 40)>>]
PersonCA == [cols |-> PersonCols,
             rows |-> <<PRow(3, 1, 6, 25), PRow(4, 1, 6, 50)>>]

HouseholdAL == [cols |-> HouseholdCols,
                rows |-> <<HRow(1, 51, 2, 1), HRow(2, 51, 1, 3)>>]

\* The household shard of CA as the server may hold it: one row per serial
\* number, or serial number 3 twice and serial number 4 missing.
HouseholdCAs ==
    { [cols |-> HouseholdCols, rows |-> r] :
        r \in { <<HRow(3, 56, 1, 2), HRow(4, 56, 1, 1)>>,
                <<HRow(3, 56, 1, 2), HRow(3, 56, 7, 4)>> } }

NoTable == [cols |-> <<>>, rows |-> <<>>]

Remotes ==
    { [s \in {"person", "household"} |->
          [st \in Range(state_list) |->
              IF s = "person" THEN (IF st = "AL" THEN PersonAL ELSE PersonCA)
              ELSE (IF st = "AL" THEN HouseholdAL ELSE hca)]] : hca \in HouseholdCAs }

-----------------------------------------------------------------------------
(* load_acs *)

\* Python's round(): round half to even, of num * n / den
Round(num, den, n) ==
    LET q == (num * n) \div den
        r == (num * n) % den
    IN  IF 2 * r < den THEN q
        ELSE IF 2 * r > den THEN q + 1
        ELSE IF q % 2 = 0 THEN q ELSE q + 1

\* the k row positions (of n) the generator seeded with seed draws, ascending
SampleIndices(n, k, seed) ==
    IF n = 0 THEN {} ELSE { ((seed + i) % n) + 1 : i \in 0..(k - 1) }

Subsample(rows, density, seed) ==
    LET n == Len(rows)
        k == Round(density.num, density.den, n)
        keep == SampleIndices(n, k, seed)
        idx == SetToSortedSeq(keep, [i \in 1..n |-> i])
    IN  [j \in 1..Len(idx) |-> rows[idx[j]]]

Regions(states) == IF states = NoneStates THEN state_list ELSE states

\* ensure_local over the regions: the shards a load adds to the cache
Missing(c, survey, states) ==
    { <<survey, Regions(states)[i]>> : i \in 1..Len(Regions(states)) } \ c

\* the server holds shards of the person and household surveys only; the
\* fetch of a shard it holds succeeds
Available(rem, survey) == survey \in DOMAIN rem

\* [ok, err, table, cache]: the table of the requested regions, or the failure
load_acs(c, rem, survey, states, density, seed, useFilter, serials, download) ==
    LET regs == Regions(states)
        miss == Missing(c, survey, states)
    IN  IF miss # {} /\ ~download
        THEN [ok |-> FALSE, err |-> "DataUnavailable", table |-> NoTable, cache |-> c]
        ELSE IF miss # {} /\ ~Available(rem, survey)
        THEN [ok |-> FALSE, err |-> "DownloadFailed", table |-> NoTable, cache |-> c]
        ELSE
          LET all == Flatten([i \in 1..Len(regs) |-> rem[survey][regs[i]].rows])
              filtered == IF useFilter
                          THEN SelectSeq(all, LAMBDA r : r["SERIALNO"] \in serials)
                          ELSE all
              sampled == IF density.num < density.den
                         THEN Subsample(filtered, density, seed)
                         ELSE filtered
          IN  [ok |-> TRUE, err |-> "",
               table |-> [cols |-> rem[survey][regs[1]].cols, rows |-> sampled],
               cache |-> c \cup miss]

-----------------------------------------------------------------------------
(* pandas *)

HashSeeds == {0, 1}

\* list(S) of a set of strings: the order follows the strings' hashes, which
\* the interpreter fixes at start-up (seed 0: the order of ref, seed 1: its reverse)
SetToList(S, ref, seed) ==
    IF seed = 0 THEN SetToSortedSeq(S, ref) ELSE SetToSortedSeq(S, Reverse(ref))

\* table[cols]: the columns cols, in that order
Project(table, cols) ==
    [cols |-> cols,
     rows |-> [i \in 1..Len(table.rows) |-> [c \in Range(cols) |-> table.rows[i][c]]]]

\* pd.merge(left, right, on=[key]): an inner join that keeps the order of the
\* left rows; a column name the two sides share (other than the key) is
\* written with the suffix _x on the left and _y on the right
Merge(left, right, key) ==
    LET common == (Range(left.cols) \cap Range(right.cols)) \ {key}
        lname(c) == IF c \in common THEN c \o "_x" ELSE c
        rname(c) == IF c \in common THEN c \o "_y" ELSE c
        rkeep == SelectSeq(right.cols, LAMBDA c : c # key)
        outcols == [i \in 1..Len(left.cols) |-> lname(left.cols[i])]
                   \o [i \in 1..Len(rkeep) |-> rname(rkeep[i])]
        lsrc(n) == CHOOSE c \in Range(left.cols) : lname(c) = n
        rsrc(n) == CHOOSE c \in Range(rkeep) : rname(c) = n
        lnames == {lname(c) : c \in Range(left.cols)}
        joined(l, r) == [n \in Range(outcols) |->
                            IF n \in lnames THEN l[lsrc(n)] ELSE r[rsrc(n)]]
        matches(l) == SelectSeq(right.rows, LAMBDA r : r[key] = l[key])
        expand(l) == [j \in 1..Len(matches(l)) |-> joined(l, matches(l)[j])]
    IN  [cols |-> outcols,
         rows |-> Flatten([i \in 1..Len(left.rows) |-> expand(left.rows[i])])]

-----------------------------------------------------------------------------
(* ACSDataSource *)

ValidHorizons == {"1-Year", "5-Year"}

NoDS == [exists |-> FALSE, horizon |-> "", survey |-> ""]

\* __init__: the instance, or the exception raised
init(horizon, survey) ==
    IF horizon \notin ValidHorizons
    THEN [ok |-> FALSE, err |-> "ValueError", self |-> NoDS]
    ELSE [ok |-> TRUE, err |-> "",
          self |-> [exists |-> TRUE, horizon |-> horizon, survey |-> survey]]

\* a join that keeps every household column
household_cols_all(household_data, data) ==
    Range(household_data.cols) \cup {"SERIALNO"}

\* the household columns the join keeps: those the person table lacks, and SERIALNO
household_cols(household_data, data) ==
    (Range(household_data.cols) \ Range(data.cols)) \cup {"SERIALNO"}

\* the length assertion left out
LengthsUnchecked(join, orig_len) == TRUE

\* assert len(join) == orig_len
LengthsMatch(join, orig_len) == Len(join.rows) = orig_len

\* the household load given the caller's density and seed
HouseholdSamplingOfCaller(density, seed) == [density |-> density, seed |-> seed]

\* the household load is called without density and random_seed: load_acs
\* uses its defaults, whatever the caller's density and seed
HouseholdSampling(density, seed) == [density |-> DefaultDensity, seed |-> 0]

\* assert self._survey == 'person'
SurveyIsPerson(self) == self.survey = "person"

Outcome(ok, err, table, person, household, merged, joinLen, c) ==
    [ok |-> ok, err |-> err, table |-> table, person |-> person,
     household |-> household, merged |-> merged, joinLen |-> joinLen, cache |-> c]

\* get_data: the returned table or the exception, the tables loaded on the
\* way, and the cache as the call leaves it
get_data(self, c, rem, hseed, states, density, seed, join_household, download) ==
    LET first == load_acs(c, rem, self.survey, states, density, seed,
                          FALSE, {}, download)
        data == first.table
    IN  IF ~first.ok
        THEN Outcome(FALSE, first.err, NoTable, NoTable, NoTable, FALSE, 0, first.cache)
        ELSE IF ~join_household
        THEN Outcome(TRUE, "", data, data, NoTable, FALSE, 0, first.cache)
        ELSE IF ~SurveyIsPerson(self)
        THEN Outcome(FALSE, "AssertionError", NoTable, data, NoTable, FALSE, 0, first.cache)
        ELSE
          LET orig_len == Len(data.rows)
              serials == {data.rows[i]["SERIALNO"] : i \in 1..Len(data.rows)}
              hs == HouseholdSampling(density, seed)
              second == load_acs(first.cache, rem, "household", states, hs.density, hs.seed,
                                 TRUE, serials, download)
              household_data == second.table
          IN  IF ~second.ok
              THEN Outcome(FALSE, second.err, NoTable, data, NoTable, FALSE, 0, second.cache)
              ELSE
                LET hcols == SetToList(household_cols(household_data, data),
                                       household_data.cols, hseed)
                    join == Merge(data, Project(household_data, hcols), "SERIALNO")
                IN  IF ~LengthsMatch(join, orig_len)
                    THEN Outcome(FALSE, "AssertionError", NoTable, data, household_data,
                                 TRUE, Len(join.rows), second.cache)
                    ELSE Outcome(TRUE, "", join, data, household_data,
                                 TRUE, Len(join.rows), second.cache)

-----------------------------------------------------------------------------
(* The state machine of one data source *)

Args == [states : StatesArgs, density : Densities, random_seed : Seeds,
         join_household : BOOLEAN, download : BOOLEAN]

NoArgs == [states |-> NoneStates, density |-> DefaultDensity, random_seed |-> 0,
           join_household |-> FALSE, download |-> FALSE]

NoCall == [done |-> FALSE, args |-> NoArgs, before |-> {},
           out |-> Outcome(FALSE, "", NoTable, NoTable, NoTable, FALSE, 0, {})]

\* what a caller observes of a call
Result(out) == [ok |-> out.ok, err |-> out.err, table |-> out.table]

NoResult == [ok |-> FALSE, err |-> "", table |-> NoTable]
NoAgain == [made |-> FALSE, result |-> NoResult]

Init ==
    /\ pc = "new"
    /\ ds = NoDS
    /\ ctorError = ""
    /\ remote \in Remotes
    /\ hashSeed \in HashSeeds
    /\ cache = {}
    /\ call = NoCall
    /\ again = NoAgain
    /\ task = "ACSIncome" /\ df = <<>> /\ once = <<>> /\ twice = <<>> /\ y = <<>>
    /\ phase = "idle"

Construct ==
    /\ pc = "new"
    /\ \E horizon \in Horizons, survey \in Surveys :
         LET r == init(horizon, survey)
         IN  /\ ds' = r.self
             /\ ctorError' = r.err
             /\ pc' = IF r.ok THEN "ready" ELSE "new"
    /\ UNCHANGED <<remote, hashSeed, cache, call, again>>
    /\ UNCHANGED taskVars

\* random_seed not handed on: the draw then differs from call to call
RunUnseeded(a) ==
    get_data(ds, cache, remote, hashSeed, a.states, a.density,
             Cardinality(cache) % (MaxSeed + 1), a.join_household, a.download)

Run(a) ==
    get_data(ds, cache, remote, hashSeed, a.states, a.density,
             a.random_seed, a.join_household, a.download)

\* a get_data call, recorded in call
GetData ==
    /\ pc = "ready"
    /\ \E a \in Args :
         LET out == Run(a)
         IN  /\ call' = [done |-> TRUE, args |-> a, before |-> cache, out |-> out]
             /\ cache' = out.cache
             /\ again' = NoAgain
    /\ UNCHANGED <<pc, ds, ctorError, remote, hashSeed>>
    /\ UNCHANGED taskVars

\* a get_data call made after the recorded one; when its arguments are those
\* of the recorded call, its outcome is kept in again
GetDataAgain ==
    /\ pc = "ready"
    /\ call.done
    /\ \E a \in Args :
         LET out == Run(a)
         IN  /\ cache' = out.cache
             /\ again' = IF a = call.args
                         THEN [made |-> TRUE, result |-> Result(out)]
                         ELSE again
    /\ UNCHANGED <<pc, ds, ctorError, remote, hashSeed, call>>
    /\ UNCHANGED taskVars

Next == Construct \/ GetData

Spec == Init /\ [][Next]_vars

DetNext == Construct \/ GetData \/ GetDataAgain

DetSpec == Init /\ [][DetNext]_vars

-----------------------------------------------------------------------------
(* Properties of the data source *)

Restrict(row, cols) == [c \in cols |-> row[c]]

RowsOf(survey, states) ==
    Flatten([i \in 1..Len(Regions(states)) |-> remote[survey][Regions(states)[i]].rows])

Serials(table) == {table.rows[i]["SERIALNO"] : i \in 1..Len(table.rows)}

HouseholdOnly(call_) == Range(call_.out.household.cols) \ Range(call_.out.person.cols)

Joined == call.done /\ call.args.join_household

\* C1: a get_data(join_household=True) call that returns a table was made on
\* a 'person' data source and returns as many rows as the person table it
\* loaded; on any other survey, or when the joined row count differs from the
\* person row count, the call fails and returns no table.
C1_JoinKeepsRowCountOrFails ==
    Joined =>
        /\ call.out.ok =>
              /\ ds.survey = "person"
              /\ Len(call.out.table.rows) = Len(call.out.person.rows)
        /\ ( \/ ds.survey # "person"
             \/ (call.out.merged /\ call.out.joinLen # Len(call.out.person.rows)) )
              => (~call.out.ok /\ call.out.table = NoTable)

C1_Witness ==
    /\ Joined /\ call.out.ok
    /\ Len(call.out.table.rows) = 5
    /\ call.out.merged

\* C2: the columns of a successful join are the person columns followed by
\* the household columns the person table lacks, each once; every output row
\* is a person row (all person columns unchanged, also those the household
\* table has too) extended by the household-only values of a household row
\* with the same SERIALNO.
C2_JoinColumnsAndValues ==
    (Joined /\ call.out.ok) =>
        LET t == call.out.table
            p == call.out.person
            h == call.out.household
        IN  /\ Range(t.cols) = Range(p.cols) \cup HouseholdOnly(call)
            /\ Len(t.cols) = Cardinality(Range(t.cols))
            /\ SubSeq(t.cols, 1, Len(p.cols)) = p.cols
            /\ \A i \in 1..Len(t.rows) :
                 \E j \in 1..Len(p.rows), k \in 1..Len(h.rows) :
                    /\ Restrict(t.rows[i], Range(p.cols)) = p.rows[j]
                    /\ h.rows[k]["SERIALNO"] = t.rows[i]["SERIALNO"]
                    /\ \A c \in HouseholdOnly(call) : t.rows[i][c] = h.rows[k][c]

C2_Witness ==
    /\ Joined /\ call.out.ok
    /\ Len(call.out.table.rows) = 5
    /\ \E i \in 1..5 : /\ call.out.table.rows[i]["ST"] = 6
                       /\ call.out.table.rows[i]["TEN"] = 1

\* k is d * n rounded to the nearest integer, a tie going to the even one
IsRounded(k, d, n) ==
    /\ 2 * d.den * k - 2 * d.num * n \in (0 - d.den)..d.den
    /\ (2 * d.den * k - 2 * d.num * n \in {0 - d.den, d.den}) => k % 2 = 0

\* C8: with density d < 1 and join_household, the person table is the
\* subsample of round(d * n) of the n person rows of the requested regions,
\* the household table is every household row of those regions whose serial
\* number the subsampled person table holds (no subsampling), and a
\* successful call returns round(d * n) rows, each with the household columns.
C8_SubsampleBeforeJoin ==
    (Joined /\ call.args.density.num < call.args.density.den) =>
        LET n == Len(RowsOf("person", call.args.states))
            p == call.out.person
        IN  /\ call.out.merged =>
                 /\ IsRounded(Len(p.rows), call.args.density, n)
                 /\ call.out.household.rows =
                       SelectSeq(RowsOf("household", call.args.states),
                                 LAMBDA r : r["SERIALNO"] \in Serials(p))
            /\ call.out.ok =>
                 /\ IsRounded(Len(call.out.table.rows), call.args.density, n)
                 /\ HouseholdOnly(call) \subseteq Range(call.out.table.cols)
                 /\ HouseholdOnly(call) # {}

C8_Witness ==
    /\ Joined /\ call.out.ok
    /\ call.args.density.num < call.args.density.den
    /\ Len(RowsOf("person", call.args.states)) = 5
    /\ Len(call.out.table.rows) = 2

\* C10 (as claimed): whenever the row-count assertion passes, every row of
\* the person table appears exactly once in the returned table.
C10_CountImpliesOneToOne ==
    (Joined /\ call.out.merged /\ call.out.joinLen = Len(call.out.person.rows)) =>
        LET t == call.out.table
            p == call.out.person
        IN  \A j \in 1..Len(p.rows) :
              Cardinality({i \in 1..Len(t.rows) :
                             Restrict(t.rows[i], Range(p.cols)) = p.rows[j]}) = 1

\* C4 (as claimed): no data source instance exists with a horizon outside
\* {'1-Year', '5-Year'} or a survey outside {'person', 'household'}.
C4_NoBadInstance ==
    ds.exists => (ds.horizon \in ValidHorizons /\ ds.survey \in {"person", "household"})

-----------------------------------------------------------------------------
(* The task catalog: row filters and the income label *)

MaxRows == 2

\* the index labels of the input tables
IndexLabels == {0, 1}

\* a missing cell; every comparison with it is false
NaN == -1

GT(x, c) == x # NaN /\ x > c
GE(x, c) == x # NaN /\ x >= c
LT(x, c) == x # NaN /\ x < c
LE(x, c) == x # NaN /\ x <= c
EQ(x, c) == x # NaN /\ x = c

\* df[mask] is SelectSeq(df, mask): the rows the mask holds of, in order, index
\* labels kept

\* the filter with the weight bound of the Adult documentation (AFNLWGT>1)
adult_filter_strict_weight(data) ==
    LET df1 == SelectSeq(data, LAMBDA r : GT(r.AGEP, 16))
        df2 == SelectSeq(df1, LAMBDA r : GT(r.PINCP, 100))
        df3 == SelectSeq(df2, LAMBDA r : GT(r.WKHP, 0))
    IN  SelectSeq(df3, LAMBDA r : GT(r.PWGTP, 1))

adult_filter(data) ==
    LET df1 == SelectSeq(data, LAMBDA r : GT(r.AGEP, 16))
        df2 == SelectSeq(df1, LAMBDA r : GT(r.PINCP, 100))
        df3 == SelectSeq(df2, LAMBDA r : GT(r.WKHP, 0))
    IN  SelectSeq(df3, LAMBDA r : GE(r.PWGTP, 1))

\* the filter followed by a renumbering of the index labels
public_coverage_filter_reindexed(data) ==
    LET df1 == SelectSeq(data, LAMBDA r : LT(r.AGEP, 65))
        df2 == SelectSeq(df1, LAMBDA r : LE(r.PINCP, 30000))
    IN  [i \in 1..Len(df2) |-> [df2[i] EXCEPT !.index = i - 1]]

public_coverage_filter(data) ==
    LET df1 == SelectSeq(data, LAMBDA r : LT(r.AGEP, 65))
    IN  SelectSeq(df1, LAMBDA r : LE(r.PINCP, 30000))

travel_time_filter(data) ==
    LET df1 == SelectSeq(data, LAMBDA r : GT(r.AGEP, 16))
        df2 == SelectSeq(df1, LAMBDA r : GE(r.PWGTP, 1))
    IN  SelectSeq(df2, LAMBDA r : EQ(r.ESR, 1))

employment_filter(data) ==
    LET df1 == SelectSeq(data, LAMBDA r : GT(r.AGEP, 16))
        df2 == SelectSeq(df1, LAMBDA r : LT(r.AGEP, 90))
    IN  SelectSeq(df2, LAMBDA r : GE(r.PWGTP, 1))

\* x.drop(labels): every row whose index label is in labels is removed
Drop(x, labels) == SelectSeq(x, LAMBDA r : r.index \notin labels)

\* the rows to drop named by their positions, which drop reads as labels
mobility_preprocess_by_position(x) ==
    Drop(x, {i - 1 : i \in {j \in 1..Len(x) : LE(x[j].AGEP, 18) \/ GE(x[j].AGEP, 35)}})

\* ACSMobility's preprocess: x.drop(x.loc[(AGEP <= 18) | (AGEP >= 35)].index)
mobility_preprocess(x) ==
    Drop(x, {x[i].index : i \in {j \in 1..Len(x) : LE(x[j].AGEP, 18) \/ GE(x[j].AGEP, 35)}})

Tasks == {"ACSIncome", "ACSEmployment", "ACSHealthInsurance", "ACSPublicCoverage",
          "ACSTravelTime", "ACSMobility", "ACSEmploymentFiltered", "ACSIncomePovertyRatio"}

\* the preprocess of each BasicProblem of the catalog
preprocess(t, data) ==
    CASE t = "ACSIncome" -> adult_filter(data)
      [] t = "ACSPublicCoverage" -> public_coverage_filter(data)
      [] t = "ACSTravelTime" -> travel_time_filter(data)
      [] t = "ACSMobility" -> mobility_preprocess(data)
      [] t = "ACSEmploymentFiltered" -> employment_filter(data)
      [] OTHER -> data

\* ACSIncome's target_transform: lambda x: x > 50000
income_target_transform(x) == GT(x, 50000)

\* the label vector: target_transform applied to the target column of the
\* filtered table (ACSIncome: PINCP), row by row
labels(t, filtered) ==
    IF t = "ACSIncome"
    THEN [i \in 1..Len(filtered) |-> income_target_transform(filtered[i].PINCP)]
    ELSE <<>>

\* Input tables: rows that differ from a row every filter keeps in one cell,
\* on either side of each threshold the filters test; PINCP, WKHP and ESR may
\* be missing, AGEP and PWGTP are recorded for every person
Row(index, agep, pincp, wkhp, pwgtp, esr) ==
    [index |-> index, AGEP |-> agep, PINCP |-> pincp, WKHP |-> wkhp,
     PWGTP |-> pwgtp, ESR |-> esr]

Cells ==
    { <<a, 30000, 1, 1, 1>> : a \in {15, 16, 17, 18, 19, 34, 35, 64, 65, 89, 90} }
    \cup { <<19, p, 1, 1, 1>> : p \in {NaN, 100, 101, 30001, 50000, 50001} }
    \cup { <<19, 30000, w, 1, 1>> : w \in {NaN, 0} }
    \cup { <<19, 30000, 1, 0, 1>>, <<19, 30000, 1, 2, 1>> }
    \cup { <<19, 30000, 1, 1, e>> : e \in {NaN, 2} }

Rows == { Row(i, c[1], c[2], c[3], c[4], c[5]) : i \in IndexLabels, c \in Cells }

\* five rows, exactly one of which (AGEP = 15) the income filter drops
ExampleTable ==
    << Row(0, 19, 50001, 1, 1, 1), Row(1, 15, 30000, 1, 1, 1), Row(2, 34, 50000, 1, 1, 1),
       Row(3, 64, 101, 1, 1, 1), Row(4, 89, 50001, 1, 2, 1) >>

Tables == UNION { [1..n -> Rows] : n \in 0..MaxRows } \cup {ExampleTable}

TaskInit ==
    /\ pc = "new" /\ ds = NoDS /\ ctorError = ""
    /\ remote = CHOOSE r \in Remotes : TRUE
    /\ hashSeed = 0 /\ cache = {} /\ call = NoCall /\ again = NoAgain
    /\ task \in Tasks
    /\ df \in Tables
    /\ once = <<>> /\ twice = <<>> /\ y = <<>>
    /\ phase = "input"

\* features_and_target up to the labels: preprocess, then the target transform
Preprocess ==
    /\ phase = "input"
    /\ once' = preprocess(task, df)
    /\ y' = labels(task, preprocess(task, df))
    /\ phase' = "once"
    /\ UNCHANGED <<task, df, twice>>
    /\ UNCHANGED dsVars

\* preprocess applied to its own output
PreprocessAgain ==
    /\ phase = "once"
    /\ twice' = preprocess(task, once)
    /\ phase' = "twice"
    /\ UNCHANGED <<task, df, once, y>>
    /\ UNCHANGED dsVars

TaskNext == Preprocess \/ PreprocessAgain

TaskSpec == TaskInit /\ [][TaskNext]_vars

-----------------------------------------------------------------------------
(* Properties of the task catalog *)

Applied == phase \in {"once", "twice"}

IncomeKeeps(r) ==
    /\ r.AGEP # NaN /\ r.AGEP > 16
    /\ r.PINCP # NaN /\ r.PINCP > 100
    /\ r.WKHP # NaN /\ r.WKHP > 0
    /\ r.PWGTP # NaN /\ r.PWGTP >= 1

C6_PreprocessIdempotent ==
    phase = "twice" => twice = once

C6_Witness ==
    /\ phase = "twice" /\ task = "ACSMobility"
    /\ Len(df) = 2 /\ Len(once) = 1 /\ twice = once
    /\ once[1].AGEP = 34

RECURSIVE IsSubSeq(_, _)
\* s is t with some elements left out
IsSubSeq(s, t) ==
    IF s = <<>> THEN TRUE
    ELSE IF t = <<>> THEN FALSE
    ELSE IF Head(s) = Head(t) THEN IsSubSeq(Tail(s), Tail(t))
    ELSE IsSubSeq(s, Tail(t))

\* C7: for every catalog task, the rows of preprocess's output are input
\* rows, unmodified and in input order, none more often than in the input,
\* so the output has at most as many rows as the input.
C7_PreprocessOnlyDrops ==
    Applied => (IsSubSeq(once, df) /\ Len(once) <= Len(df))

C7_Witness ==
    /\ Applied /\ task = "ACSPublicCoverage"
    /\ Len(df) = 2 /\ Len(once) = 1 /\ once[1] = df[2] /\ df[2].index = 1

\* C9 (as claimed): ACSMobility's preprocess drops exactly the rows with
\* AGEP <= 18 or AGEP >= 35 and keeps every other row, whatever the index
\* labels of the table.
C9_MobilityDropsExactly ==
    (Applied /\ task = "ACSMobility") =>
        once = SelectSeq(df, LAMBDA r : r.AGEP = NaN \/ (18 < r.AGEP /\ r.AGEP < 35))

====
